---- MODULE Spec2Model ----
(***************************************************************************)
(* A model of self_hosting_machinery/webgui/selfhost_fastapi_completions.py *)
(* the request-facing gateway: sampling-parameter clamping, chat history   *)
(* limiting, ticket admission, the two delta-streaming translators and the *)
(* /v1/chat/completions proxy.                                             *)
(*                                                                         *)
(* Texts are sequences of one-character strings, so that startswith and    *)
(* slicing are computed and not assumed.                                   *)
(***************************************************************************)
EXTENDS Integers, Sequences, FiniteSets, TLC

(***************************************************************************)
(* Bounds of the model.                                                    *)
(***************************************************************************)
MaxN == 2
MaxLen == 3
MaxMsgs == 3

\* the character the backend generates after text: "a", "b" in turn
NextChar(text) == IF Len(text) % 2 = 0 THEN "a" ELSE "b"

VARIABLES
    \* ---- one ticket and its streamer (_completion_streamer / chat_streamer)
    kind,             \* "completion" | "chat": which streamer serves the ticket
    post_stream,      \* post.stream (chat: always TRUE, line 368)
    post_n,           \* post.n, the number of choices of every message
    gen,              \* the backend's cumulative text per choice
    produced,         \* history: the messages the backend has put, in order
    streaming_queue,  \* ticket.streaming_queue
    consumed,         \* history: the messages the loop has handled, in order
    msg,              \* the loop's local msg
    seen,             \* seen[i]
    frames,           \* history: what the generator has yielded
    pc,               \* where the generator is suspended, or "finished" (it
                      \* returned or was closed) or "raised" (an exception left it)
    cancelled,        \* ticket.cancelled
    done_calls,       \* how many times ticket.done() was invoked
    closed_at,        \* "" or the pc at which the client disconnected
    \* ---- NlpSamplingParams.clamp
    sampling,         \* self.temperature, self.top_p, self.top_n, self.max_tokens
    sampling_in,      \* history: the fields as posted
    clamp_ret,        \* what clamp() returned, NoRet before the call
    \* ---- chat_limit_messages
    history,          \* history: the messages as posted
    messages,         \* the list the function trims in place
    limit_pc,         \* the role pattern while composing, then "count" | "chars" |
                      \* "returned" | "raised" (HTTP 400, line 38)
    \* ---- admission: CompletionsRouter._completions and ._chat
    posts,            \* per request: the endpoint, post.model and the posted messages
    handler_pc,       \* per request: "new" | "json" | "put" | "responded"
    id2ticket,        \* self._id2ticket: the ids registered
    model_queues,     \* per backend model name: the queue of admitted tickets
    responses,        \* per request: what the handler returned or raised
    \* ---- the /v1/chat/completions proxy: CompletionsRouter._chat_completions
    proxy_path,       \* "cloud" (litellm_streamer) | "local" (chat_completion_streamer)
    proxy_pc,         \* "open" | "streaming" | "ended" | "crashed"
    finish_reason,    \* the streamer's local finish_reason
    chunks_in,        \* history: the chunks the source has delivered
    proxy_frames,     \* history: what the streamer has yielded
    \* ---- the timed wait of the streamers' loops: asyncio.wait_for, lines 115, 161
    wait_pc,          \* "wait" | "yield" | "exited"
    wait_queue,       \* ticket.streaming_queue: the statuses of the messages in it
    wait_timer,       \* the time the timer of the pending wait_for has run
    wait_clock,       \* history: the time since the streamer started
    wait_began,       \* history: wait_clock when the pending wait began
    wait_log,         \* history: how each wait ended, after how long, at what time
    \* ---- two tickets streamed at once, each by its own streamer
    pair_kind,        \* per ticket: "completion" | "chat"
    pair_queue,       \* per ticket: ticket.streaming_queue
    pair_put,         \* per ticket, history: the messages its backend has put
    pair_taken,       \* per ticket, history: the messages its loop has handled
    pair_seen,        \* per request: the seen of its streamer
    pair_frames,      \* per ticket, history: what its generator has yielded
    pair_pc           \* per ticket: where its generator is suspended

streamVars == <<kind, post_stream, post_n, gen, produced, streaming_queue,
                consumed, msg, seen, frames, pc, cancelled, done_calls, closed_at>>

clampVars == <<sampling, sampling_in, clamp_ret>>

limitVars == <<history, messages, limit_pc>>

admitVars == <<posts, handler_pc, id2ticket, model_queues, responses>>

proxyVars == <<proxy_path, proxy_pc, finish_reason, chunks_in, proxy_frames>>

waitVars == <<wait_pc, wait_queue, wait_timer, wait_clock, wait_began, wait_log>>

pairVars == <<pair_kind, pair_queue, pair_put, pair_taken, pair_seen, pair_frames,
              pair_pc>>

nonStreamVars == <<clampVars, limitVars, admitVars, proxyVars, waitVars, pairVars>>

vars == <<streamVars, clampVars, limitVars, admitVars, proxyVars, waitVars, pairVars>>

(***************************************************************************)
(* Python string operations on texts.                                      *)
(***************************************************************************)
\* str.startswith
StartsWith(text, prefix) ==
    /\ Len(prefix) <= Len(text)
    /\ SubSeq(text, 1, Len(prefix)) = prefix

\* text[l:]
SliceFrom(text, l) == SubSeq(text, l + 1, Len(text))

(***************************************************************************)
(* Backend result messages.                                                *)
(***************************************************************************)
NoMsg == [status |-> "none", has |-> FALSE, texts |-> <<>>, synth |-> FALSE]

\* line 118 / line 164: the message synthesized on asyncio.TimeoutError
TimeoutMsg == [status |-> "error", has |-> FALSE, texts |-> <<>>, synth |-> TRUE]

ChoicesMsg(status, texts) ==
    [status |-> status, has |-> TRUE, texts |-> texts, synth |-> FALSE]

PlainMsg(status) ==
    [status |-> status, has |-> FALSE, texts |-> <<>>, synth |-> FALSE]

\* a message outside the contract of the loops: its one choice is an object
\* without the keys they read ("text", line 123; "index", line 167)
BrokenMsg == [status |-> "in_progress", has |-> TRUE, texts |-> <<>>, synth |-> FALSE]

\* lines 123 and 167 raise KeyError on it
Raises(m) == m.has /\ m.texts = <<>>

\* a mutant of Terminal: the breaks of lines 139 and 177 are lost
TerminalNever(m) == FALSE

\* msg.get("status", "") != "in_progress"
Terminal(m) == m.status # "in_progress"

(***************************************************************************)
(* Frames the generators yield.                                            *)
(***************************************************************************)
\* "data: " + json.dumps(...) + "\n\n"
DataFrame(status, has, texts) ==
    [type |-> "data", status |-> status, has |-> has, texts |-> texts]

\* json.dumps(not_seen_resp), the whole-document response of stream = false
WholeFrame(status, has, texts) ==
    [type |-> "whole", status |-> status, has |-> has, texts |-> texts]

\* "data: [DONE]" + "\n\n"
DoneFrame == [type |-> "done", status |-> "", has |-> FALSE, texts |-> <<>>]

(***************************************************************************)
(* _completion_streamer, lines 119-131: the text of choice i in the frame  *)
(* and the new seen[i].                                                    *)
(***************************************************************************)
\* a mutant of CompletionChoiceText: the slice of line 127 is lost
CompletionChoiceTextWhole(newtext, seen_i) == newtext

CompletionChoiceText(newtext, seen_i) ==
    IF StartsWith(newtext, seen_i)
    THEN SliceFrom(newtext, Len(seen_i))
    ELSE newtext

CompletionSeenNext(newtext, seen_i, stream) ==
    IF StartsWith(newtext, seen_i) /\ stream THEN newtext ELSE seen_i

\* not_seen_resp["choices"] after the loop of lines 121-131
CompletionNotSeenTexts(m, sn, n) ==
    IF m.has
    THEN [i \in 1..n |-> CompletionChoiceText(m.texts[i], sn[i])]
    ELSE <<>>

CompletionSeenAfter(m, sn, n, stream) ==
    IF m.has
    THEN [i \in 1..n |-> CompletionSeenNext(m.texts[i], sn[i], stream)]
    ELSE sn

\* a mutant of CompletionSuppressed: the continue of line 134 is lost
CompletionSuppressedNever(m, stream) == FALSE

\* lines 132-134: stream = false swallows an in_progress message
CompletionSuppressed(m, stream) == ~stream /\ m.status = "in_progress"

\* a mutant of CompletionYieldsDone: the sentinel of line 142 is lost
CompletionYieldsDoneNever(stream) == FALSE

\* line 141
CompletionYieldsDone(stream) == stream

(***************************************************************************)
(* chat_streamer, lines 165-173.                                           *)
(***************************************************************************)
ChatDelta(content, seen_here) == SliceFrom(content, Len(seen_here))

ChatSeenNext(content, seen_here) == content

ChatDeltas(m, sn, n) ==
    IF m.has
    THEN [i \in 1..n |-> ChatDelta(m.texts[i], sn[i])]
    ELSE <<>>

ChatSeenAfter(m, sn, n) ==
    IF m.has
    THEN [i \in 1..n |-> ChatSeenNext(m.texts[i], sn[i])]
    ELSE sn

(***************************************************************************)
(* Python numbers.  A float is counted in units of 1/FloatUnit; nan is the *)
(* float for which every comparison is false.                              *)
(***************************************************************************)
FloatUnit == 10
Far == 100

Num(v) == [nan |-> FALSE, v |-> v]

NaN == [nan |-> TRUE, v |-> 0]

\* a < b
PyLess(a, b) == ~a.nan /\ ~b.nan /\ a.v < b.v

\* min(a, b): the first argument unless the second is smaller
PyMin(a, b) == IF PyLess(b, a) THEN b ELSE a

\* max(a, b): the first argument unless the second is greater
PyMax(a, b) == IF PyLess(a, b) THEN b ELSE a

\* a mutant of clamp: the bounds are applied to the wrong sides
clampSwapped(lower, upper, x) == PyMin(lower, PyMax(upper, x))

\* lines 28-29
clamp(lower, upper, x) == PyMax(lower, PyMin(upper, x))

(***************************************************************************)
(* NlpSamplingParams.clamp, lines 53-65.                                   *)
(***************************************************************************)
TemperatureLower == 0
TemperatureUpper == 4
TopPLower == 0
TopPUpper == 1
TopNLower == 0
TopNUpper == 1000
MaxTokensLower == 0
MaxTokensUpper == 8192

NoRet == [returned |-> FALSE]

\* lines 54-57: the fields after the four assignments
ClampedFields(self) ==
    [temperature |-> clamp(Num(TemperatureLower * FloatUnit),
                           Num(TemperatureUpper * FloatUnit), self.temperature),
     top_p       |-> clamp(Num(TopPLower * FloatUnit),
                           Num(TopPUpper * FloatUnit), self.top_p),
     top_n       |-> clamp(Num(TopNLower), Num(TopNUpper), self.top_n),
     max_tokens  |-> clamp(Num(MaxTokensLower), Num(MaxTokensUpper), self.max_tokens)]

\* lines 58-65: the returned dict (created and stop_tokens carry no clamped value)
ClampReturn(self) ==
    [returned    |-> TRUE,
     temperature |-> self.temperature,
     top_p       |-> self.top_p,
     top_n       |-> self.top_n,
     max_tokens  |-> self.max_tokens]

\* values around a range, on both sides and inside
Probe(lo, hi) == {lo - Far, lo - 1, lo, lo + 1, hi - 1, hi, hi + 1, hi + Far}

TemperatureInputs ==
    {Num(v) : v \in Probe(TemperatureLower * FloatUnit, TemperatureUpper * FloatUnit)
                    \cup {(0 - 5) * FloatUnit, 2, 99 * FloatUnit}}
        \cup {NaN}

TopPInputs ==
    {Num(v) : v \in Probe(TopPLower * FloatUnit, TopPUpper * FloatUnit)} \cup {NaN}

TopNInputs == {Num(v) : v \in Probe(TopNLower, TopNUpper)}

MaxTokensInputs == {Num(v) : v \in Probe(MaxTokensLower, MaxTokensUpper) \cup {500}}

ClampIdle ==
    /\ sampling = [temperature |-> Num(2), top_p |-> Num(FloatUnit),
                   top_n |-> Num(0), max_tokens |-> Num(500)]
    /\ sampling_in = sampling
    /\ clamp_ret = NoRet

(***************************************************************************)
(* chat_limit_messages, lines 36-43.  A message is its place in the posted *)
(* list, its role and the length of its content.                           *)
(***************************************************************************)
MaxMessages == 10
MaxChars == 8000

MaxHist == 13
MaxLiveHist == 11
MaxBig == 3
Small == 1
Large == 3000
Huge == 8000

\* len(role)
RoleLen(role) ==
    CASE role = "user" -> 4
      [] role = "assistant" -> 9
      [] role = "system" -> 6

\* len(m["content"] + m["role"])
MessageLen(m) == m.size + RoleLen(m.role)

RECURSIVE TotalLen(_)
\* sum([len(m["content"] + m["role"]) for m in messages])
TotalLen(ms) == IF ms = <<>> THEN 0 ELSE MessageLen(Head(ms)) + TotalLen(Tail(ms))

\* a mutant of DelFirstTwo: the deletion removes nothing
DelNothing(ms) == ms

\* a mutant of DelFirstTwo: one message is deleted instead of two
DelFirstOne(ms) == SubSeq(ms, 2, Len(ms))

\* del messages[0:2]
DelFirstTwo(ms) == SubSeq(ms, 3, Len(ms))

\* line 39
CountExceeds(ms) == Len(ms) > MaxMessages

\* a mutant of CharsExceed: the second loop never runs
CharsExceedNever(ms) == FALSE

\* line 41
CharsExceed(ms) == TotalLen(ms) > MaxChars

LimitIdle ==
    /\ history = <<>>
    /\ messages = <<>>
    /\ limit_pc = "idle"

(***************************************************************************)
(* Admission: what _completions and _chat use.                             *)
(***************************************************************************)
MaxReq == 2

Requests == 1..MaxReq

\* the models the inference queue has, and the names a client may post
Available == {"m1", "m2"}
PostedModels == Available \cup {"nope"}

\* static_resolve_model(post.model, self._inference_queue): (model_name, err_msg)
static_resolve_model(name) ==
    IF name \in Available
    THEN [model_name |-> name, err_msg |-> ""]
    ELSE [model_name |-> "", err_msg |-> "model is not loaded"]

RECURSIVE LimitCount(_)
\* the loop of lines 39-40
LimitCount(ms) == IF CountExceeds(ms) THEN LimitCount(DelFirstTwo(ms)) ELSE ms

RECURSIVE LimitChars(_)
\* the loop of lines 41-42
LimitChars(ms) == IF CharsExceed(ms) THEN LimitChars(DelFirstTwo(ms)) ELSE ms

\* lines 39-43, for a list that is not empty
chat_limit_messages(ms) == LimitChars(LimitCount(ms))

\* a mutant of CompletionsRejects: the check of err_msg is lost
CompletionsRejectsNever(err_msg) == FALSE

\* line 322
CompletionsRejects(err_msg) == err_msg # ""

\* line 349
ChatRejects(err_msg) == err_msg # ""

\* line 37
NoMessages(ms) == Len(ms) = 0

\* a mutant of TooLarge: the check of line 357 is lost
TooLargeNever(ms) == FALSE

\* line 357
TooLarge(ms) == Len(ms) = 0

NoResponse == [code |-> 0, kind |-> "none", frames |-> <<>>]

\* Response(status_code=400, ...) of line 324, HTTPException(400) of lines 38, 351
Http400 == [code |-> 400, kind |-> "error", frames |-> <<>>]

\* StreamingResponse over the ticket's streamer, lines 340-343 and 375
StreamingOfTicket == [code |-> 200, kind |-> "ticket", frames |-> <<>>]

\* line 360
TooLargeMessage == "Your messsage is too large, the limit is 4k characters"

\* lines 191-192
ErrorChunk(static_message) ==
    [type |-> "data", object |-> "smc.chat.chunk", role |-> "assistant",
     delta |-> static_message, finish_reason |-> "END"]

\* line 193: "data: [ERROR]" + "\n\n"
ErrorSentinel == [type |-> "error_sentinel"]

\* error_string_streamer, lines 190-194: everything it yields
error_string_streamer(static_message) ==
    << ErrorChunk(static_message), ErrorSentinel >>

\* StreamingResponse(error_string_streamer(...)), lines 358-360
StreamingStatic(static_message) ==
    [code |-> 200, kind |-> "static", frames |-> error_string_streamer(static_message)]

\* a mutant of Register: the ticket is not entered into the registry
RegisterNothing(ids, ticket) == ids

\* lines 337 and 373: self._id2ticket[ticket.id()] = ticket
Register(ids, ticket) == ids \cup {ticket}

\* self._inference_queue.model_name_to_queue(ticket, model_name), then q.put
QueuePut(queues, model_name, ticket) ==
    [queues EXCEPT ![model_name] = Append(@, ticket)]

AdmitIdle ==
    /\ posts = <<>>
    /\ handler_pc = <<>>
    /\ id2ticket = {}
    /\ model_queues = [m \in Available |-> <<>>]
    /\ responses = <<>>

(***************************************************************************)
(* The /v1/chat/completions proxy, lines 405-464.  A chunk of the source   *)
(* is one frame: JSON with choices[0].finish_reason, JSON without choices, *)
(* or text that is not JSON (the source's own "[DONE]").                   *)
(***************************************************************************)
MaxChunks == 3

FinishReasons == {"null", "stop"}

SourceChunks ==
    [kind : {"json"}, finish_reason : FinishReasons]
        \cup {[kind |-> "not_json", finish_reason |-> "null"],
              [kind |-> "no_choices", finish_reason |-> "null"]}

\* prefix + json.dumps(data) + postfix
ProxyData(from, reason) == [type |-> "data", from |-> from, finish_reason |-> reason]

\* prefix + "[DONE]" + postfix, line 424
ProxyDone == [type |-> "done", from |-> "gateway", finish_reason |-> "null"]

\* prefix + json.dumps({"error": err_msg}) + postfix, lines 428 and 460
ProxyError == [type |-> "error", from |-> "gateway", finish_reason |-> "null"]

\* lines 418-422: what litellm_streamer yields for a chunk it can read
LitellmFrame(chunk, reason) ==
    IF chunk.kind = "json"
    THEN ProxyData("source", chunk.finish_reason)
    ELSE ProxyData("gateway", reason)

\* a mutant of LocalFrame: the assignment of line 453 is lost
LocalFrameDeclared(chunk, reason) ==
    IF chunk.kind = "json"
    THEN ProxyData("source", chunk.finish_reason)
    ELSE ProxyData("gateway", reason)

\* lines 450-456: what chat_completion_streamer yields for a chunk it can read
LocalFrame(chunk, reason) ==
    IF chunk.kind = "json"
    THEN ProxyData("source", "null")
    ELSE ProxyData("gateway", reason)

\* lines 419 and 452: finish_reason after the chunk
ReasonAfter(chunk, reason) ==
    IF chunk.kind = "json" THEN chunk.finish_reason ELSE reason

ProxyIdle ==
    /\ proxy_path = "idle"
    /\ proxy_pc = "idle"
    /\ finish_reason = "null"
    /\ chunks_in = <<>>
    /\ proxy_frames = <<>>

(***************************************************************************)
(* The timed wait, lines 113-118 and 159-164.  Time is counted in ticks;   *)
(* TimeoutTicks is the timeout handed to wait_for.                         *)
(***************************************************************************)
TimeoutTicks == 2
MaxClock == 6
MaxPuts == 3

\* a mutant of WaitForTimer: the timer of the wait before runs on
WaitForTimerKept(timer) == timer

\* lines 115 and 161: each call of asyncio.wait_for starts a timer of its own
WaitForTimer(timer) == 0

\* a wait ended with a message of the queue
GotMessage(status, waited, at) ==
    [how |-> "message", status |-> status, waited |-> waited, at |-> at]

\* lines 116-118 and 162-164: a wait ended with asyncio.TimeoutError
GotTimeout(waited, at) ==
    [how |-> "timeout", status |-> "error", waited |-> waited, at |-> at]

WaitIdle ==
    /\ wait_pc = "idle"
    /\ wait_queue = <<>>
    /\ wait_timer = 0
    /\ wait_clock = 0
    /\ wait_began = 0
    /\ wait_log = <<>>

(***************************************************************************)
(* Two tickets, each of a request of its own with one choice.              *)
(***************************************************************************)
MaxPairMsgs == 2

Tickets == {"t1", "t2"}

\* the cumulative texts a backend reports
PairTexts == { <<"a">>, <<"a", "b">> }

\* a mutant of SeenOf: every streamer works on the seen of the first request
SeenOfFirst(t) == "t1"

\* lines 339 and 157: the seen a streamer works on is created for its request
SeenOf(t) == t

\* lines 119-137 and 165-175: the frame a streamer yields for the message m
PairFrame(k, m, sn) ==
    DataFrame(m.status, m.has,
              IF k = "completion" THEN CompletionNotSeenTexts(m, sn, 1)
              ELSE ChatDeltas(m, sn, 1))

\* lines 121-131 and 165-173: seen after the message m
PairSeenAfter(k, m, sn) ==
    IF k = "completion" THEN CompletionSeenAfter(m, sn, 1, TRUE)
    ELSE ChatSeenAfter(m, sn, 1)

PairIdle ==
    /\ pair_kind = <<>>
    /\ pair_queue = <<>>
    /\ pair_put = <<>>
    /\ pair_taken = <<>>
    /\ pair_seen = <<>>
    /\ pair_frames = <<>>
    /\ pair_pc = <<>>

(***************************************************************************)
(* Ticket.done(): the terminal marker of a ticket.                         *)
(***************************************************************************)
TicketDone(calls) == calls + 1

\* a mutant of TicketCancelled: the assignment of the finally is lost
TicketCancelledKept(flag) == flag

\* lines 153 and 186: ticket.cancelled = True
TicketCancelled(flag) == TRUE

StreamIdle ==
    /\ kind = "idle"
    /\ post_stream = FALSE
    /\ post_n = 0
    /\ gen = <<>>
    /\ produced = <<>>
    /\ streaming_queue = <<>>
    /\ consumed = <<>>
    /\ msg = NoMsg
    /\ seen = <<>>
    /\ frames = <<>>
    /\ pc = "idle"
    /\ cancelled = FALSE
    /\ done_calls = 0
    /\ closed_at = ""

(***************************************************************************)
(* The state after _completions (lines 339-343) or _chat (line 375) has    *)
(* returned the StreamingResponse of an admitted ticket.                   *)
(***************************************************************************)
Init ==
    /\ kind \in {"completion", "chat"}
    /\ post_stream \in (IF kind = "chat" THEN {TRUE} ELSE BOOLEAN)
    /\ post_n \in 1..MaxN
    /\ gen = [i \in 1..post_n |-> <<>>]
    /\ produced = <<>>
    /\ streaming_queue = <<>>
    /\ consumed = <<>>
    /\ msg = NoMsg
    /\ seen = [i \in 1..post_n |-> <<>>]
    /\ frames = <<>>
    /\ pc = "wait"
    /\ cancelled = FALSE
    /\ done_calls = 0
    /\ closed_at = ""
    /\ ClampIdle
    /\ LimitIdle
    /\ AdmitIdle
    /\ ProxyIdle
    /\ WaitIdle
    /\ PairIdle

(***************************************************************************)
(* The backend producer: appends result messages to the ticket's queue.    *)
(* It generates one token for one choice, or rewrites a choice's text so   *)
(* that it no longer extends what it reported, or reports an error without *)
(* choices.  It is not stopped by a terminal message it has sent.  Every   *)
(* message with choices carries post_n of them, the ones that the loop of  *)
(* lines 122-123 reads, but for the message that breaks that contract.     *)
(***************************************************************************)
BackendToken ==
    /\ Len(produced) < MaxMsgs
    /\ \E i \in 1..post_n, s \in {"in_progress", "completed"} :
          /\ Len(gen[i]) < MaxLen
          /\ gen' = [gen EXCEPT ![i] = Append(@, NextChar(@))]
          /\ streaming_queue' = Append(streaming_queue, ChoicesMsg(s, gen'))
          /\ produced' = Append(produced, ChoicesMsg(s, gen'))
    /\ UNCHANGED <<kind, post_stream, post_n, consumed, msg, seen, frames, pc,
                   cancelled, done_calls, closed_at>>
    /\ UNCHANGED nonStreamVars

BackendRewrite ==
    /\ Len(produced) < MaxMsgs
    /\ \E i \in 1..post_n, s \in {"in_progress", "completed"} :
          /\ gen[i] # <<>>
          /\ gen' = [gen EXCEPT ![i] = Tail(@)]
          /\ streaming_queue' = Append(streaming_queue, ChoicesMsg(s, gen'))
          /\ produced' = Append(produced, ChoicesMsg(s, gen'))
    /\ UNCHANGED <<kind, post_stream, post_n, consumed, msg, seen, frames, pc,
                   cancelled, done_calls, closed_at>>
    /\ UNCHANGED nonStreamVars

BackendPlain ==
    /\ Len(produced) < MaxMsgs
    /\ streaming_queue' = Append(streaming_queue, PlainMsg("error"))
    /\ produced' = Append(produced, PlainMsg("error"))
    /\ UNCHANGED <<kind, post_stream, post_n, gen, consumed, msg, seen, frames, pc,
                   cancelled, done_calls, closed_at>>
    /\ UNCHANGED nonStreamVars

\* the backend puts a message that the loops cannot read
BackendBroken ==
    /\ Len(produced) < MaxMsgs
    /\ streaming_queue' = Append(streaming_queue, BrokenMsg)
    /\ produced' = Append(produced, BrokenMsg)
    /\ UNCHANGED <<kind, post_stream, post_n, gen, consumed, msg, seen, frames, pc,
                   cancelled, done_calls, closed_at>>
    /\ UNCHANGED nonStreamVars

(***************************************************************************)
(* _completion_streamer.                                                   *)
(***************************************************************************)
\* lines 119-137 for the message m: up to the yield, or around the loop
CompletionHandle(m) ==
    /\ msg' = m
    /\ consumed' = Append(consumed, m)
    /\ seen' = CompletionSeenAfter(m, seen, post_n, post_stream)
    /\ IF CompletionSuppressed(m, post_stream)
       THEN /\ frames' = frames
            /\ pc' = "wait"
       ELSE /\ frames' = Append(frames,
                   IF post_stream
                   THEN DataFrame(m.status, m.has, CompletionNotSeenTexts(m, seen, post_n))
                   ELSE WholeFrame(m.status, m.has, CompletionNotSeenTexts(m, seen, post_n)))
            /\ pc' = "yield_data"

\* line 115: a message is there
CompletionGet ==
    /\ kind = "completion"
    /\ pc = "wait"
    /\ streaming_queue # <<>>
    /\ ~Raises(Head(streaming_queue))
    /\ CompletionHandle(Head(streaming_queue))
    /\ streaming_queue' = Tail(streaming_queue)
    /\ UNCHANGED <<kind, post_stream, post_n, gen, produced, cancelled, done_calls,
                   closed_at>>
    /\ UNCHANGED nonStreamVars

\* line 123 raises on the message got at line 115: the exception leaves the
\* generator through the finally of lines 148-153
CompletionRaise ==
    /\ kind = "completion"
    /\ pc = "wait"
    /\ streaming_queue # <<>>
    /\ Raises(Head(streaming_queue))
    /\ msg' = Head(streaming_queue)
    /\ streaming_queue' = Tail(streaming_queue)
    /\ cancelled' = TicketCancelled(cancelled)
    /\ pc' = "raised"
    /\ UNCHANGED <<kind, post_stream, post_n, gen, produced, consumed, seen, frames,
                   done_calls, closed_at>>
    /\ UNCHANGED nonStreamVars

\* lines 116-118: the wait timed out
CompletionTimeout ==
    /\ kind = "completion"
    /\ pc = "wait"
    /\ streaming_queue = <<>>
    /\ CompletionHandle(TimeoutMsg)
    /\ UNCHANGED <<kind, post_stream, post_n, gen, produced, streaming_queue,
                   cancelled, done_calls, closed_at>>
    /\ UNCHANGED nonStreamVars

\* resumed after the yield of line 135 or 137
CompletionResume ==
    /\ kind = "completion"
    /\ pc = "yield_data"
    /\ IF post_stream /\ ~Terminal(msg)
       THEN \* line 139 does not break: around the loop
            /\ pc' = "wait"
            /\ UNCHANGED <<frames, cancelled, done_calls>>
       ELSE IF CompletionYieldsDone(post_stream)
       THEN \* line 142
            /\ frames' = Append(frames, DoneFrame)
            /\ pc' = "yield_done"
            /\ UNCHANGED <<cancelled, done_calls>>
       ELSE \* lines 143-144, then the finally of line 153
            /\ done_calls' = TicketDone(done_calls)
            /\ cancelled' = TicketCancelled(cancelled)
            /\ pc' = "finished"
            /\ UNCHANGED frames
    /\ UNCHANGED <<kind, post_stream, post_n, gen, produced, streaming_queue,
                   consumed, msg, seen, closed_at>>
    /\ UNCHANGED nonStreamVars

\* resumed after the yield of line 142: lines 143-144, then the finally
CompletionFinish ==
    /\ kind = "completion"
    /\ pc = "yield_done"
    /\ done_calls' = TicketDone(done_calls)
    /\ cancelled' = TicketCancelled(cancelled)
    /\ pc' = "finished"
    /\ UNCHANGED <<kind, post_stream, post_n, gen, produced, streaming_queue,
                   consumed, msg, seen, frames, closed_at>>
    /\ UNCHANGED nonStreamVars

\* the generator is closed where it is suspended: only the finally runs
CompletionClose ==
    /\ kind = "completion"
    /\ pc \in {"wait", "yield_data", "yield_done"}
    /\ closed_at' = pc
    /\ cancelled' = TicketCancelled(cancelled)
    /\ pc' = "finished"
    /\ UNCHANGED <<kind, post_stream, post_n, gen, produced, streaming_queue,
                   consumed, msg, seen, frames, done_calls>>
    /\ UNCHANGED nonStreamVars

(***************************************************************************)
(* chat_streamer.                                                          *)
(***************************************************************************)
\* lines 165-175 for the message m: up to the yield
ChatHandle(m) ==
    /\ msg' = m
    /\ consumed' = Append(consumed, m)
    /\ seen' = ChatSeenAfter(m, seen, post_n)
    /\ frames' = Append(frames, DataFrame(m.status, m.has, ChatDeltas(m, seen, post_n)))
    /\ pc' = "yield_data"

ChatGet ==
    /\ kind = "chat"
    /\ pc = "wait"
    /\ streaming_queue # <<>>
    /\ ~Raises(Head(streaming_queue))
    /\ ChatHandle(Head(streaming_queue))
    /\ streaming_queue' = Tail(streaming_queue)
    /\ UNCHANGED <<kind, post_stream, post_n, gen, produced, cancelled, done_calls,
                   closed_at>>
    /\ UNCHANGED nonStreamVars

\* line 167 raises on the message got at line 161: the exception leaves the
\* generator through the finally of lines 183-187
ChatRaise ==
    /\ kind = "chat"
    /\ pc = "wait"
    /\ streaming_queue # <<>>
    /\ Raises(Head(streaming_queue))
    /\ msg' = Head(streaming_queue)
    /\ streaming_queue' = Tail(streaming_queue)
    /\ cancelled' = TicketCancelled(cancelled)
    /\ done_calls' = TicketDone(done_calls)
    /\ pc' = "raised"
    /\ UNCHANGED <<kind, post_stream, post_n, gen, produced, consumed, seen, frames,
                   closed_at>>
    /\ UNCHANGED nonStreamVars

\* lines 162-164: the wait timed out
ChatTimeout ==
    /\ kind = "chat"
    /\ pc = "wait"
    /\ streaming_queue = <<>>
    /\ ChatHandle(TimeoutMsg)
    /\ UNCHANGED <<kind, post_stream, post_n, gen, produced, streaming_queue,
                   cancelled, done_calls, closed_at>>
    /\ UNCHANGED nonStreamVars

\* resumed after the yield of line 175: lines 176-179
ChatResume ==
    /\ kind = "chat"
    /\ pc = "yield_data"
    /\ pc' = IF Terminal(msg) THEN "sleep" ELSE "wait"
    /\ UNCHANGED <<kind, post_stream, post_n, gen, produced, streaming_queue,
                   consumed, msg, seen, frames, cancelled, done_calls, closed_at>>
    /\ UNCHANGED nonStreamVars

\* the sleep of line 179 is over: line 180
ChatYieldDone ==
    /\ kind = "chat"
    /\ pc = "sleep"
    /\ frames' = Append(frames, DoneFrame)
    /\ pc' = "yield_done"
    /\ UNCHANGED <<kind, post_stream, post_n, gen, produced, streaming_queue,
                   consumed, msg, seen, cancelled, done_calls, closed_at>>
    /\ UNCHANGED nonStreamVars

\* resumed after the yield of line 180: lines 181-182, then the finally 184-187
ChatFinish ==
    /\ kind = "chat"
    /\ pc = "yield_done"
    /\ done_calls' = TicketDone(TicketDone(done_calls))
    /\ cancelled' = TicketCancelled(cancelled)
    /\ pc' = "finished"
    /\ UNCHANGED <<kind, post_stream, post_n, gen, produced, streaming_queue,
                   consumed, msg, seen, frames, closed_at>>
    /\ UNCHANGED nonStreamVars

\* the generator is closed where it is suspended: the finally of lines 184-187
ChatClose ==
    /\ kind = "chat"
    /\ pc \in {"wait", "yield_data", "sleep", "yield_done"}
    /\ closed_at' = pc
    /\ cancelled' = TicketCancelled(cancelled)
    /\ done_calls' = TicketDone(done_calls)
    /\ pc' = "finished"
    /\ UNCHANGED <<kind, post_stream, post_n, gen, produced, streaming_queue,
                   consumed, msg, seen, frames>>
    /\ UNCHANGED nonStreamVars

Next ==
    \/ BackendToken
    \/ BackendRewrite
    \/ BackendPlain
    \/ BackendBroken
    \/ CompletionGet
    \/ CompletionRaise
    \/ CompletionTimeout
    \/ CompletionResume
    \/ CompletionFinish
    \/ CompletionClose
    \/ ChatGet
    \/ ChatRaise
    \/ ChatTimeout
    \/ ChatResume
    \/ ChatYieldDone
    \/ ChatFinish
    \/ ChatClose

Spec == Init /\ [][Next]_vars

(***************************************************************************)
(* NlpSamplingParams.clamp on every posted combination of the four fields. *)
(***************************************************************************)
InitClamp ==
    /\ sampling \in [temperature : TemperatureInputs, top_p : TopPInputs,
                     top_n : TopNInputs, max_tokens : MaxTokensInputs]
    /\ sampling_in = sampling
    /\ clamp_ret = NoRet
    /\ StreamIdle
    /\ LimitIdle
    /\ AdmitIdle
    /\ ProxyIdle
    /\ WaitIdle
    /\ PairIdle

\* lines 53-65
NlpSamplingParamsClamp ==
    /\ clamp_ret = NoRet
    /\ sampling' = ClampedFields(sampling)
    /\ clamp_ret' = ClampReturn(sampling')
    /\ UNCHANGED <<sampling_in, streamVars, waitVars, pairVars, limitVars, admitVars, proxyVars>>

NextClamp == NlpSamplingParamsClamp

SpecClamp == InitClamp /\ [][NextClamp]_vars

(***************************************************************************)
(* chat_limit_messages on posted histories: alternating user/assistant     *)
(* messages, or a system message first, at most MaxBig of them long.       *)
(***************************************************************************)
RoleAt(pattern, k) ==
    IF pattern = "system_first" /\ k = 1 THEN "system"
    ELSE IF (k % 2 = 1) = (pattern = "user_first") THEN "user"
    ELSE "assistant"

Bigs(ms) == Cardinality({k \in 1..Len(ms) : ms[k].size # Small})

InitLimit ==
    /\ history = <<>>
    /\ messages = <<>>
    /\ limit_pc \in {"user_first", "system_first"}
    /\ StreamIdle
    /\ ClampIdle
    /\ AdmitIdle
    /\ ProxyIdle
    /\ WaitIdle
    /\ PairIdle

\* the client writes one more message into the request body
ComposeMessage ==
    /\ limit_pc \in {"user_first", "system_first"}
    /\ Len(history) < MaxHist
    /\ \E size \in {Small, Large, Huge} :
          /\ size # Small => Bigs(history) < MaxBig
          /\ history' = Append(history,
                 [at |-> Len(history) + 1,
                  role |-> RoleAt(limit_pc, Len(history) + 1),
                  size |-> size])
    /\ UNCHANGED <<messages, limit_pc, streamVars, waitVars, pairVars, clampVars, admitVars, proxyVars>>

\* chat_limit_messages(post_raw["messages"]) is called, lines 37-38
LimitCall ==
    /\ limit_pc \in {"user_first", "system_first"}
    /\ messages' = history
    /\ limit_pc' = IF Len(history) = 0 THEN "raised" ELSE "count"
    /\ UNCHANGED <<history, streamVars, waitVars, pairVars, clampVars, admitVars, proxyVars>>

\* lines 39-40: one test of the first loop
LimitCountStep ==
    /\ limit_pc = "count"
    /\ IF CountExceeds(messages)
       THEN messages' = DelFirstTwo(messages) /\ limit_pc' = "count"
       ELSE messages' = messages /\ limit_pc' = "chars"
    /\ UNCHANGED <<history, streamVars, waitVars, pairVars, clampVars, admitVars, proxyVars>>

\* lines 41-43: one test of the second loop
LimitCharsStep ==
    /\ limit_pc = "chars"
    /\ IF CharsExceed(messages)
       THEN messages' = DelFirstTwo(messages) /\ limit_pc' = "chars"
       ELSE messages' = messages /\ limit_pc' = "returned"
    /\ UNCHANGED <<history, streamVars, waitVars, pairVars, clampVars, admitVars, proxyVars>>

NextLimit ==
    \/ ComposeMessage
    \/ LimitCall
    \/ LimitCountStep
    \/ LimitCharsStep

SpecLimit == InitLimit /\ [][NextLimit]_vars

\* chat_limit_messages has no await: once called, its two loops run on until
\* the return of line 43
FairLimit == WF_vars(LimitCountStep) /\ WF_vars(LimitCharsStep)

\* the client composes a shorter body, still longer than MaxMessages
ComposeLive ==
    /\ Len(history) < MaxLiveHist
    /\ ComposeMessage

NextLimitLive ==
    \/ ComposeLive
    \/ LimitCall
    \/ LimitCountStep
    \/ LimitCharsStep

SpecLimitLive == InitLimit /\ [][NextLimitLive]_vars /\ FairLimit

(***************************************************************************)
(* POST /v1/completions and POST /v1/chat: MaxReq requests, handled        *)
(* concurrently; a handler runs from one await to the next.                *)
(***************************************************************************)
Message(at, role, size) == [at |-> at, role |-> role, size |-> size]

PostedHistories ==
    { <<>>,
      << Message(1, "user", Small) >>,
      << Message(1, "user", Huge) >>,
      << Message(1, "user", Large), Message(2, "assistant", Large),
         Message(3, "user", Large) >> }

Posts ==
    [endpoint : {"completions"}, model : PostedModels, messages : {<<>>}]
        \cup [endpoint : {"chat"}, model : PostedModels, messages : PostedHistories]

InitAdmit ==
    /\ posts \in [Requests -> Posts]
    /\ handler_pc = [r \in Requests |-> "new"]
    /\ id2ticket = {}
    /\ model_queues = [m \in Available |-> <<>>]
    /\ responses = [r \in Requests |-> NoResponse]
    /\ StreamIdle
    /\ ClampIdle
    /\ LimitIdle
    /\ ProxyIdle
    /\ WaitIdle
    /\ PairIdle

\* _completions, lines 318-337: up to the await of q.put
Completions(r) ==
    /\ posts[r].endpoint = "completions"
    /\ handler_pc[r] = "new"
    /\ IF CompletionsRejects(static_resolve_model(posts[r].model).err_msg)
       THEN /\ responses' = [responses EXCEPT ![r] = Http400]
            /\ handler_pc' = [handler_pc EXCEPT ![r] = "responded"]
            /\ UNCHANGED id2ticket
       ELSE /\ id2ticket' = Register(id2ticket, r)
            /\ handler_pc' = [handler_pc EXCEPT ![r] = "put"]
            /\ UNCHANGED responses
    /\ UNCHANGED <<posts, model_queues, streamVars, waitVars, pairVars, clampVars, limitVars, proxyVars>>

\* _completions, lines 338-343
CompletionsPut(r) ==
    /\ posts[r].endpoint = "completions"
    /\ handler_pc[r] = "put"
    /\ model_queues' =
           QueuePut(model_queues, static_resolve_model(posts[r].model).model_name, r)
    /\ responses' = [responses EXCEPT ![r] = StreamingOfTicket]
    /\ handler_pc' = [handler_pc EXCEPT ![r] = "responded"]
    /\ UNCHANGED <<posts, id2ticket, streamVars, waitVars, pairVars, clampVars, limitVars, proxyVars>>

\* _chat, lines 346-355: up to the await of request.json()
Chat(r) ==
    /\ posts[r].endpoint = "chat"
    /\ handler_pc[r] = "new"
    /\ IF ChatRejects(static_resolve_model(posts[r].model).err_msg)
       THEN /\ responses' = [responses EXCEPT ![r] = Http400]
            /\ handler_pc' = [handler_pc EXCEPT ![r] = "responded"]
       ELSE /\ handler_pc' = [handler_pc EXCEPT ![r] = "json"]
            /\ UNCHANGED responses
    /\ UNCHANGED <<posts, id2ticket, model_queues,
                   streamVars, waitVars, pairVars, clampVars, limitVars, proxyVars>>

\* _chat, lines 356-373: up to the await of q.put
ChatBody(r) ==
    /\ posts[r].endpoint = "chat"
    /\ handler_pc[r] = "json"
    /\ IF NoMessages(posts[r].messages)
       THEN /\ responses' = [responses EXCEPT ![r] = Http400]
            /\ handler_pc' = [handler_pc EXCEPT ![r] = "responded"]
            /\ UNCHANGED id2ticket
       ELSE IF TooLarge(chat_limit_messages(posts[r].messages))
       THEN /\ responses' = [responses EXCEPT ![r] = StreamingStatic(TooLargeMessage)]
            /\ handler_pc' = [handler_pc EXCEPT ![r] = "responded"]
            /\ UNCHANGED id2ticket
       ELSE /\ id2ticket' = Register(id2ticket, r)
            /\ handler_pc' = [handler_pc EXCEPT ![r] = "put"]
            /\ UNCHANGED responses
    /\ UNCHANGED <<posts, model_queues, streamVars, waitVars, pairVars, clampVars, limitVars, proxyVars>>

\* _chat, lines 374-375
ChatPut(r) ==
    /\ posts[r].endpoint = "chat"
    /\ handler_pc[r] = "put"
    /\ model_queues' =
           QueuePut(model_queues, static_resolve_model(posts[r].model).model_name, r)
    /\ responses' = [responses EXCEPT ![r] = StreamingOfTicket]
    /\ handler_pc' = [handler_pc EXCEPT ![r] = "responded"]
    /\ UNCHANGED <<posts, id2ticket, streamVars, waitVars, pairVars, clampVars, limitVars, proxyVars>>

NextAdmit ==
    \/ \E r \in Requests : Completions(r)
    \/ \E r \in Requests : CompletionsPut(r)
    \/ \E r \in Requests : Chat(r)
    \/ \E r \in Requests : ChatBody(r)
    \/ \E r \in Requests : ChatPut(r)

SpecAdmit == InitAdmit /\ [][NextAdmit]_vars

(***************************************************************************)
(* POST /v1/chat/completions: one response, over every source behaviour.   *)
(***************************************************************************)
InitProxy ==
    /\ proxy_path \in {"cloud", "local"}
    /\ proxy_pc = "open"
    /\ finish_reason = "null"
    /\ chunks_in = <<>>
    /\ proxy_frames = <<>>
    /\ StreamIdle
    /\ ClampIdle
    /\ LimitIdle
    /\ AdmitIdle
    /\ WaitIdle
    /\ PairIdle

\* lines 411-415: litellm.acompletion returned the response
LitellmOpen ==
    /\ proxy_path = "cloud"
    /\ proxy_pc = "open"
    /\ proxy_pc' = "streaming"
    /\ UNCHANGED <<proxy_path, finish_reason, chunks_in, proxy_frames,
                   streamVars, waitVars, pairVars, clampVars, limitVars, admitVars>>

\* lines 416-422: one model_response of the provider
LitellmChunk ==
    /\ proxy_path = "cloud"
    /\ proxy_pc = "streaming"
    /\ Len(chunks_in) < MaxChunks
    /\ \E chunk \in SourceChunks :
          /\ chunks_in' = Append(chunks_in, chunk)
          /\ IF chunk.kind = "no_choices"
             THEN \* the KeyError of line 419 reaches the except of line 425
                  /\ proxy_frames' = Append(proxy_frames, ProxyError)
                  /\ proxy_pc' = "ended"
                  /\ UNCHANGED finish_reason
             ELSE /\ finish_reason' = ReasonAfter(chunk, finish_reason)
                  /\ proxy_frames' =
                         Append(proxy_frames, LitellmFrame(chunk, finish_reason))
                  /\ UNCHANGED proxy_pc
    /\ UNCHANGED <<proxy_path, streamVars, waitVars, pairVars, clampVars, limitVars, admitVars>>

\* lines 423-424: the provider's stream is over
LitellmEnd ==
    /\ proxy_path = "cloud"
    /\ proxy_pc = "streaming"
    /\ proxy_frames' = Append(proxy_frames, ProxyDone)
    /\ proxy_pc' = "ended"
    /\ UNCHANGED <<proxy_path, finish_reason, chunks_in,
                   streamVars, waitVars, pairVars, clampVars, limitVars, admitVars>>

\* lines 425-428: the provider or the transport failed, at the call or in the stream
LitellmFail ==
    /\ proxy_path = "cloud"
    /\ proxy_pc \in {"open", "streaming"}
    /\ proxy_frames' = Append(proxy_frames, ProxyError)
    /\ proxy_pc' = "ended"
    /\ UNCHANGED <<proxy_path, finish_reason, chunks_in,
                   streamVars, waitVars, pairVars, clampVars, limitVars, admitVars>>

\* lines 444-447: session.post connected
LocalOpen ==
    /\ proxy_path = "local"
    /\ proxy_pc = "open"
    /\ proxy_pc' = "streaming"
    /\ UNCHANGED <<proxy_path, finish_reason, chunks_in, proxy_frames,
                   streamVars, waitVars, pairVars, clampVars, limitVars, admitVars>>

\* lines 457-460: aiohttp.ClientConnectorError
LocalConnectFail ==
    /\ proxy_path = "local"
    /\ proxy_pc = "open"
    /\ proxy_frames' = Append(proxy_frames, ProxyError)
    /\ proxy_pc' = "ended"
    /\ UNCHANGED <<proxy_path, finish_reason, chunks_in,
                   streamVars, waitVars, pairVars, clampVars, limitVars, admitVars>>

\* lines 448-456: one chunk of the local backend
LocalChunk ==
    /\ proxy_path = "local"
    /\ proxy_pc = "streaming"
    /\ Len(chunks_in) < MaxChunks
    /\ \E chunk \in SourceChunks :
          /\ chunks_in' = Append(chunks_in, chunk)
          /\ IF chunk.kind = "no_choices"
             THEN \* the KeyError of line 452 is caught nowhere
                  /\ proxy_pc' = "crashed"
                  /\ UNCHANGED <<finish_reason, proxy_frames>>
             ELSE /\ finish_reason' = ReasonAfter(chunk, finish_reason)
                  /\ proxy_frames' =
                         Append(proxy_frames, LocalFrame(chunk, finish_reason))
                  /\ UNCHANGED proxy_pc
    /\ UNCHANGED <<proxy_path, streamVars, waitVars, pairVars, clampVars, limitVars, admitVars>>

\* line 448: iter_chunks is exhausted, and the generator returns
LocalEnd ==
    /\ proxy_path = "local"
    /\ proxy_pc = "streaming"
    /\ proxy_pc' = "ended"
    /\ UNCHANGED <<proxy_path, finish_reason, chunks_in, proxy_frames,
                   streamVars, waitVars, pairVars, clampVars, limitVars, admitVars>>

\* line 448: the connection breaks in the stream, which is no ClientConnectorError
LocalFail ==
    /\ proxy_path = "local"
    /\ proxy_pc = "streaming"
    /\ proxy_pc' = "crashed"
    /\ UNCHANGED <<proxy_path, finish_reason, chunks_in, proxy_frames,
                   streamVars, waitVars, pairVars, clampVars, limitVars, admitVars>>

NextProxy ==
    \/ LitellmOpen
    \/ LitellmChunk
    \/ LitellmEnd
    \/ LitellmFail
    \/ LocalOpen
    \/ LocalConnectFail
    \/ LocalChunk
    \/ LocalEnd
    \/ LocalFail

SpecProxy == InitProxy /\ [][NextProxy]_vars

(***************************************************************************)
(* The loop of either streamer with its waits timed: what ends each wait   *)
(* and when.                                                               *)
(***************************************************************************)
InitWait ==
    /\ wait_pc = "wait"
    /\ wait_queue = <<>>
    /\ wait_timer = WaitForTimer(0)
    /\ wait_clock = 0
    /\ wait_began = 0
    /\ wait_log = <<>>
    /\ StreamIdle
    /\ ClampIdle
    /\ LimitIdle
    /\ AdmitIdle
    /\ ProxyIdle
    /\ PairIdle

notWaitVars == <<streamVars, clampVars, limitVars, admitVars, proxyVars, pairVars>>

\* the backend puts a message
WaitPut ==
    /\ wait_pc # "exited"
    /\ Len(wait_log) + Len(wait_queue) < MaxPuts
    /\ \E status \in {"in_progress", "completed"} :
          wait_queue' = Append(wait_queue, status)
    /\ UNCHANGED <<wait_pc, wait_timer, wait_clock, wait_began, wait_log>>
    /\ UNCHANGED notWaitVars

\* a tick passes while the loop waits on an empty queue
WaitTick ==
    /\ wait_pc = "wait"
    /\ wait_queue = <<>>
    /\ wait_timer < TimeoutTicks
    /\ wait_clock < MaxClock
    /\ wait_timer' = wait_timer + 1
    /\ wait_clock' = wait_clock + 1
    /\ UNCHANGED <<wait_pc, wait_queue, wait_began, wait_log>>
    /\ UNCHANGED notWaitVars

\* a tick passes while the generator is suspended at a yield
YieldTick ==
    /\ wait_pc = "yield"
    /\ wait_clock < MaxClock
    /\ wait_clock' = wait_clock + 1
    /\ UNCHANGED <<wait_pc, wait_queue, wait_timer, wait_began, wait_log>>
    /\ UNCHANGED notWaitVars

\* lines 115 and 161: streaming_queue.get() returns
WaitGet ==
    /\ wait_pc = "wait"
    /\ wait_queue # <<>>
    /\ wait_log' = Append(wait_log,
           GotMessage(Head(wait_queue), wait_clock - wait_began, wait_clock))
    /\ wait_queue' = Tail(wait_queue)
    /\ wait_pc' = "yield"
    /\ UNCHANGED <<wait_timer, wait_clock, wait_began>>
    /\ UNCHANGED notWaitVars

\* lines 116-118 and 162-164: the timer of wait_for has run out
WaitTimeout ==
    /\ wait_pc = "wait"
    /\ wait_queue = <<>>
    /\ wait_timer = TimeoutTicks
    /\ wait_log' = Append(wait_log, GotTimeout(wait_clock - wait_began, wait_clock))
    /\ wait_pc' = "yield"
    /\ UNCHANGED <<wait_queue, wait_timer, wait_clock, wait_began>>
    /\ UNCHANGED notWaitVars

\* lines 139-140 and 177-178: around the loop to the next wait_for, or out
WaitResume ==
    /\ wait_pc = "yield"
    /\ IF wait_log[Len(wait_log)].status = "in_progress"
       THEN /\ wait_pc' = "wait"
            /\ wait_timer' = WaitForTimer(wait_timer)
            /\ wait_began' = wait_clock
       ELSE /\ wait_pc' = "exited"
            /\ UNCHANGED <<wait_timer, wait_began>>
    /\ UNCHANGED <<wait_queue, wait_clock, wait_log>>
    /\ UNCHANGED notWaitVars

NextWait ==
    \/ WaitPut
    \/ WaitTick
    \/ YieldTick
    \/ WaitGet
    \/ WaitTimeout
    \/ WaitResume

SpecWait == InitWait /\ [][NextWait]_vars

(***************************************************************************)
(* Two admitted tickets, their backends and their streamers, interleaved   *)
(* at the awaits and the yields.                                           *)
(***************************************************************************)
InitPair ==
    /\ pair_kind \in [Tickets -> {"completion", "chat"}]
    /\ pair_queue = [t \in Tickets |-> <<>>]
    /\ pair_put = [t \in Tickets |-> <<>>]
    /\ pair_taken = [t \in Tickets |-> <<>>]
    /\ pair_seen = [t \in Tickets |-> << <<>> >>]
    /\ pair_frames = [t \in Tickets |-> <<>>]
    /\ pair_pc = [t \in Tickets |-> "wait"]
    /\ StreamIdle
    /\ ClampIdle
    /\ LimitIdle
    /\ AdmitIdle
    /\ ProxyIdle
    /\ WaitIdle

notPairVars == <<streamVars, clampVars, limitVars, admitVars, proxyVars, waitVars>>

\* the backend that serves ticket t puts a message on the ticket's queue,
\* none after its final one
PairPut(t) ==
    /\ Len(pair_put[t]) < MaxPairMsgs
    /\ \A k \in 1..Len(pair_put[t]) : pair_put[t][k].status = "in_progress"
    /\ \E text \in PairTexts, status \in {"in_progress", "completed"} :
          /\ pair_queue' = [pair_queue EXCEPT ![t] = Append(@, ChoicesMsg(status, <<text>>))]
          /\ pair_put' = [pair_put EXCEPT ![t] = Append(@, ChoicesMsg(status, <<text>>))]
    /\ UNCHANGED <<pair_kind, pair_taken, pair_seen, pair_frames, pair_pc>>
    /\ UNCHANGED notPairVars

\* lines 119-137 and 165-175 of the streamer of ticket t, for the message m
PairHandle(t, m) ==
    /\ pair_taken' = [pair_taken EXCEPT ![t] = Append(@, m)]
    /\ pair_frames' = [pair_frames EXCEPT
           ![t] = Append(@, PairFrame(pair_kind[t], m, pair_seen[SeenOf(t)]))]
    /\ pair_seen' = [pair_seen EXCEPT
           ![SeenOf(t)] = PairSeenAfter(pair_kind[t], m, pair_seen[SeenOf(t)])]
    /\ pair_pc' = [pair_pc EXCEPT ![t] = "yield_data"]

\* lines 115 and 161
PairGet(t) ==
    /\ pair_pc[t] = "wait"
    /\ pair_queue[t] # <<>>
    /\ PairHandle(t, Head(pair_queue[t]))
    /\ pair_queue' = [pair_queue EXCEPT ![t] = Tail(@)]
    /\ UNCHANGED <<pair_kind, pair_put>>
    /\ UNCHANGED notPairVars

\* lines 116-118 and 162-164
PairTimeout(t) ==
    /\ pair_pc[t] = "wait"
    /\ pair_queue[t] = <<>>
    /\ PairHandle(t, TimeoutMsg)
    /\ UNCHANGED <<pair_kind, pair_queue, pair_put>>
    /\ UNCHANGED notPairVars

\* lines 138-142 and 176-180: around the loop, or out of it to the sentinel
PairResume(t) ==
    /\ pair_pc[t] = "yield_data"
    /\ IF Terminal(pair_taken[t][Len(pair_taken[t])])
       THEN /\ pair_frames' = [pair_frames EXCEPT ![t] = Append(@, DoneFrame)]
            /\ pair_pc' = [pair_pc EXCEPT ![t] = "yield_done"]
       ELSE /\ pair_pc' = [pair_pc EXCEPT ![t] = "wait"]
            /\ UNCHANGED pair_frames
    /\ UNCHANGED <<pair_kind, pair_queue, pair_put, pair_taken, pair_seen>>
    /\ UNCHANGED notPairVars

\* lines 143-153 and 181-187
PairFinish(t) ==
    /\ pair_pc[t] = "yield_done"
    /\ pair_pc' = [pair_pc EXCEPT ![t] = "finished"]
    /\ UNCHANGED <<pair_kind, pair_queue, pair_put, pair_taken, pair_seen, pair_frames>>
    /\ UNCHANGED notPairVars

NextPair ==
    \/ \E t \in Tickets : PairPut(t)
    \/ \E t \in Tickets : PairGet(t)
    \/ \E t \in Tickets : PairTimeout(t)
    \/ \E t \in Tickets : PairResume(t)
    \/ \E t \in Tickets : PairFinish(t)

SpecPair == InitPair /\ [][NextPair]_vars

(***************************************************************************)
(* Properties of the streamers.                                            *)
(***************************************************************************)
Last(s) == s[Len(s)]

RECURSIVE PrevCum(_, _)
\* the cumulative text of choice i in the latest message with choices that
\* the loop handled before its k-th message
PrevCum(k, i) ==
    IF k <= 1 THEN <<>>
    ELSE IF consumed[k - 1].has THEN consumed[k - 1].texts[i]
    ELSE PrevCum(k - 1, i)

\* up to its k-th message, every text the loop handled extends the one before
PrefixContract(k) ==
    \A j \in 1..k : consumed[j].has =>
        \A i \in 1..post_n : StartsWith(consumed[j].texts[i], PrevCum(j, i))

RECURSIVE EmittedText(_, _)
\* the texts of choice i in the first k frames, concatenated
EmittedText(k, i) ==
    IF k = 0 THEN <<>>
    ELSE IF frames[k].has THEN EmittedText(k - 1, i) \o frames[k].texts[i]
    ELSE EmittedText(k - 1, i)

\* C1: in a streaming completion whose messages keep the prefix contract, the
\* text of a choice in each frame is the suffix of the new cumulative text
\* beyond the previous one, and the texts emitted for a choice concatenate to
\* its latest cumulative text.
C1_DeltaIsSuffix ==
    (kind = "completion" /\ post_stream) =>
        \A k \in 1..Len(consumed) : PrefixContract(k) =>
            /\ frames[k].type = "data"
            /\ frames[k].has = consumed[k].has
            /\ \A i \in 1..post_n :
                  /\ consumed[k].has =>
                        frames[k].texts[i] =
                            SliceFrom(consumed[k].texts[i], Len(PrevCum(k, i)))
                  /\ EmittedText(k, i) = PrevCum(k + 1, i)

\* the sequence "a", "ab", "abc" of one choice has been streamed as "a", "b", "c"
C1_Witness ==
    /\ kind = "completion" /\ post_stream /\ post_n = 1
    /\ pc = "finished" /\ closed_at = ""
    /\ Len(consumed) = 3
    /\ consumed[1].texts = << <<"a">> >>
    /\ consumed[2].texts = << <<"a", "b">> >>
    /\ consumed[3].texts = << <<"a", "b", "a">> >>
    /\ frames[1].texts[1] = <<"a">>
    /\ frames[2].texts[1] = <<"b">>
    /\ frames[3].texts[1] = <<"a">>

\* C2: a non-streaming completion never emits an in_progress frame nor the
\* sentinel; it emits nothing until the first message that is not
\* in_progress, and then exactly that message, whole, with the full text of
\* every choice.
C2_NonStreamingOneFrame ==
    (kind = "completion" /\ ~post_stream) =>
        /\ \A k \in 1..Len(frames) :
              frames[k].type = "whole" /\ frames[k].status # "in_progress"
        /\ \A k \in 1..(Len(consumed) - 1) : ~Terminal(consumed[k])
        /\ IF consumed # <<>> /\ Terminal(Last(consumed))
           THEN frames = << WholeFrame(Last(consumed).status, Last(consumed).has,
                                       Last(consumed).texts) >>
           ELSE frames = <<>>
        /\ (pc = "finished" /\ closed_at = "") => Len(frames) = 1

\* in_progress messages were swallowed, then the final message came out whole
C2_Witness ==
    /\ kind = "completion" /\ ~post_stream
    /\ pc = "finished" /\ closed_at = ""
    /\ Len(consumed) = 3
    /\ consumed[1].status = "in_progress" /\ consumed[1].has
    /\ consumed[3].status = "completed" /\ consumed[3].has
    /\ Len(consumed[3].texts[1]) = 2
    /\ Len(frames) = 1

\* C3: a streaming completion response and a chat response that run to their
\* end with the client connected end with the [DONE] sentinel, once, as the
\* last frame, also after a timeout.
C3_EndsWithDone ==
    ((kind = "chat" \/ post_stream) /\ pc = "finished" /\ closed_at = "") =>
        /\ frames # <<>>
        /\ Last(frames) = DoneFrame
        /\ \A k \in 1..(Len(frames) - 1) : frames[k].type = "data"
        /\ Len(frames) = Len(consumed) + 1
        /\ frames[Len(frames) - 1].status = Last(consumed).status

\* the wait timed out, the synthesized error was emitted and the sentinel followed
C3_Witness ==
    /\ kind = "chat"
    /\ pc = "finished" /\ closed_at = ""
    /\ msg = TimeoutMsg
    /\ Len(frames) = 3
    /\ frames[2] = DataFrame("error", FALSE, <<>>)
    /\ frames[3] = DoneFrame

\* C4: after a client disconnect at an emitted frame, before any terminal
\* status, the ticket is cancelled and marked done exactly once.
C4_DisconnectDoneOnce ==
    (pc = "finished" /\ closed_at = "yield_data" /\ ~Terminal(msg)) =>
        (cancelled /\ done_calls = 1)

\* C11: in a streaming completion, when the text a message reports for a
\* choice does not start with what seen records for that choice, the request
\* goes on, the frame carries no text for that choice, seen of that choice
\* stays as it was, and the deltas of the other choices are in the frame.
C11_AnomalyOmitted ==
    [][(kind = "completion" /\ post_stream /\ pc = "wait" /\ pc' = "yield_data"
            /\ msg'.has)
        => /\ Len(frames') = Len(frames) + 1
           /\ \A i \in 1..post_n :
                 IF StartsWith(msg'.texts[i], seen[i])
                 THEN Last(frames').texts[i] = SliceFrom(msg'.texts[i], Len(seen[i]))
                 ELSE /\ Last(frames').texts[i] = <<>>
                      /\ seen'[i] = seen[i]]_vars

\* C12: after a wait on the queue timed out, the response carries exactly one
\* frame with status "error", in band; the loop has taken no further message,
\* nothing but the sentinel follows that frame, and once the streamer has
\* finished the ticket is marked done.
C12_TimeoutEndsTicket ==
    \A k \in 1..Len(consumed) : consumed[k].synth =>
        /\ k = Len(consumed)
        /\ Cardinality({j \in 1..Len(frames) : frames[j].status = "error"}) = 1
        /\ \A j \in 1..Len(frames) : frames[j].status = "error" =>
              \A l \in (j + 1)..Len(frames) : frames[l] = DoneFrame
        /\ pc = "finished" => done_calls >= 1

\* C13: the timeout bounds each wait by itself: every wait that ended with a
\* synthesized timeout error lasted the full timeout, on an empty queue, and
\* every wait that ended with a message lasted at most the timeout, whatever
\* the time the request has been running; so a backend whose messages all
\* come before a full timeout has passed in the wait never causes the error.
C13_TimeoutPerWait ==
    /\ \A k \in 1..Len(wait_log) :
          /\ wait_log[k].how = "timeout" => wait_log[k].waited = TimeoutTicks
          /\ wait_log[k].how = "message" => wait_log[k].waited <= TimeoutTicks
    /\ wait_pc = "wait" => wait_timer = wait_clock - wait_began
    /\ (wait_pc = "wait" /\ wait_clock - wait_began < TimeoutTicks) =>
          ~ENABLED WaitTimeout

\* three messages, each one tick after the one before was handled, and time
\* spent at the yields: the request has run for longer than the timeout, and
\* no wait has timed out
C13_Witness ==
    /\ wait_pc = "exited"
    /\ Len(wait_log) = 3
    /\ \A k \in 1..3 : wait_log[k].how = "message" /\ wait_log[k].waited = 1
    /\ wait_log[3].at > 2 * TimeoutTicks

\* s ends with t
EndsWith(s, t) ==
    /\ Len(t) <= Len(s)
    /\ SubSeq(s, Len(s) - Len(t) + 1, Len(s)) = t

\* the messages the loop took from the queue, without the one it synthesized
TakenFromQueue == SelectSeq(consumed, LAMBDA m : ~m.synth)

\* the place of the first message put whose status is not "in_progress", or
\* the number of messages put when there is none
UpToFirstTerminal ==
    IF \E k \in 1..Len(produced) : produced[k].status # "in_progress"
    THEN CHOOSE k \in 1..Len(produced) :
             /\ produced[k].status # "in_progress"
             /\ \A j \in 1..(k - 1) : produced[j].status = "in_progress"
    ELSE Len(produced)

\* C15: in streaming mode every message the loop handles gets one data frame
\* of its own, in the order handled, carrying that message's status and, per
\* choice, an end of that message's text; the messages handled are the first
\* ones the backend put, in the order it put them, none of them after the
\* first one that is not "in_progress"; and a streamer that ran to its end on
\* a message of the backend has emitted a frame for each of them up to and
\* including that one.
C15_InOrderOnePerMessage ==
    (kind = "chat" \/ post_stream) =>
        LET taken == Len(TakenFromQueue)
            upto == UpToFirstTerminal
        IN  /\ Len(frames) >= Len(consumed)
            /\ \A k \in 1..Len(frames) : frames[k].type = "data" <=> k <= Len(consumed)
            /\ \A k \in 1..Len(consumed) :
                  /\ frames[k].status = consumed[k].status
                  /\ frames[k].has = consumed[k].has
                  /\ consumed[k].has =>
                        \A i \in 1..post_n :
                            EndsWith(consumed[k].texts[i], frames[k].texts[i])
            /\ taken <= Len(produced)
            /\ TakenFromQueue = SubSeq(produced, 1, taken)
            /\ taken <= upto
            /\ (pc = "finished" /\ closed_at = "" /\ ~msg.synth) =>
                  /\ taken = upto
                  /\ produced[upto].status # "in_progress"

\* three messages were put, the second one final: two data frames came out, in
\* that order, and none for the third
C15_Witness ==
    /\ kind = "completion" /\ post_stream /\ post_n = 1
    /\ pc = "finished" /\ closed_at = ""
    /\ Len(produced) = 3
    /\ produced[1].status = "in_progress"
    /\ produced[2].status = "completed"
    /\ Len(streaming_queue) = 1
    /\ Len(frames) = 3
    /\ frames[1].status = "in_progress" /\ frames[1].texts[1] = <<"a">>
    /\ frames[2].status = "completed" /\ frames[2].texts[1] = <<"b">>
    /\ frames[3] = DoneFrame

\* C16: in every state in which a streamer has finished, by whichever way (a
\* terminal status, a timeout, a client disconnect, an exception while it
\* processed a message), the ticket's cancelled flag is true: it was set on
\* the way out and nothing has reset it since.
C16_CancelledOnEveryExit ==
    pc \in {"finished", "raised"} => cancelled

\* a chat streamer emitted a frame and then left by the exception that the
\* next message raised
C16_Witness ==
    /\ kind = "chat"
    /\ pc = "raised"
    /\ msg = BrokenMsg
    /\ Len(frames) = 1
    /\ cancelled

\* C17: a streamer that ran to its end with the client connected has invoked
\* the ticket's done operation exactly once.
C17_DoneOnce ==
    (pc = "finished" /\ closed_at = "") => done_calls = 1

RECURSIVE CompletionSeenAt(_)
\* seen as the streaming completion streamer keeps it over the first k
\* messages handled
CompletionSeenAt(k) ==
    IF k = 0 THEN [i \in 1..post_n |-> <<>>]
    ELSE CompletionSeenAfter(consumed[k], CompletionSeenAt(k - 1), post_n, TRUE)

\* C18: on the messages it handles, the chat streamer emits the deltas and
\* keeps the seen that the streaming completion streamer emits and keeps on
\* the same messages.
C18_ChatAsCompletion ==
    kind = "chat" =>
        /\ seen = CompletionSeenAt(Len(consumed))
        /\ \A k \in 1..Len(consumed) :
              frames[k].texts =
                  CompletionNotSeenTexts(consumed[k], CompletionSeenAt(k - 1), post_n)

(***************************************************************************)
(* Properties of NlpSamplingParams.clamp.                                  *)
(***************************************************************************)
\* r is x brought into [lo, hi]
ClampedInto(lo, hi, x, r) ==
    /\ ~r.nan
    /\ lo <= r.v /\ r.v <= hi
    /\ ~x.nan => r.v = (IF x.v < lo THEN lo ELSE IF x.v > hi THEN hi ELSE x.v)

\* C7: whatever is posted, clamp returns (and stores) temperature in [0, 4],
\* top_p in [0, 1], top_n in [0, 1000] and max_tokens in [0, 8192]: a value
\* inside its range unchanged, a value below it the lower bound, a value above
\* it the upper bound; and clamp returns for every input.
C7_ClampInRange ==
    /\ clamp_ret = NoRet => ENABLED NlpSamplingParamsClamp
    /\ clamp_ret.returned =>
        /\ ClampedInto(TemperatureLower * FloatUnit, TemperatureUpper * FloatUnit,
                       sampling_in.temperature, clamp_ret.temperature)
        /\ ClampedInto(TopPLower * FloatUnit, TopPUpper * FloatUnit,
                       sampling_in.top_p, clamp_ret.top_p)
        /\ ClampedInto(TopNLower, TopNUpper, sampling_in.top_n, clamp_ret.top_n)
        /\ ClampedInto(MaxTokensLower, MaxTokensUpper,
                       sampling_in.max_tokens, clamp_ret.max_tokens)
        /\ sampling.temperature = clamp_ret.temperature
        /\ sampling.top_p = clamp_ret.top_p
        /\ sampling.top_n = clamp_ret.top_n
        /\ sampling.max_tokens = clamp_ret.max_tokens

\* temperature 99 came back as 4, a negative top_p as 0, top_n above its range as
\* 1000, and max_tokens 500 unchanged
C7_Witness ==
    /\ clamp_ret.returned
    /\ sampling_in.temperature = Num(99 * FloatUnit)
    /\ clamp_ret.temperature = Num(TemperatureUpper * FloatUnit)
    /\ sampling_in.top_p = Num(0 - 1)
    /\ clamp_ret.top_p = Num(0)
    /\ sampling_in.top_n = Num(TopNUpper + Far)
    /\ clamp_ret.top_n = Num(TopNUpper)
    /\ sampling_in.max_tokens = Num(500)
    /\ clamp_ret.max_tokens = Num(500)

(***************************************************************************)
(* Properties of chat_limit_messages.                                      *)
(***************************************************************************)
Removed == Len(history) - Len(messages)

\* messages is what is left of history after deleting from its front
KeptMostRecent == messages = SubSeq(history, Removed + 1, Len(history))

\* the roles of history repeat with period two, as user/assistant pairs do
Alternating == \A k \in 3..Len(history) : history[k].role = history[k - 2].role

SameFirstRole == messages # <<>> => messages[1].role = history[1].role

BeforeLastDeletion ==
    SubSeq(history, (IF Removed % 2 = 0 THEN Removed - 2 ELSE Removed - 1) + 1,
           Len(history))

\* C9, as stated: a history of at most 10 messages and more than 8000
\* characters is trimmed from its front, two messages at a time, until it has
\* at most 8000 characters; what is returned is within both limits.
C9_TrimsPairsToChars ==
    limit_pc = "returned" =>
        /\ Len(messages) <= MaxMessages
        /\ TotalLen(messages) <= MaxChars
        /\ (Len(history) <= MaxMessages /\ TotalLen(history) > MaxChars) =>
              /\ KeptMostRecent
              /\ Removed > 0
              /\ Removed % 2 = 0
              /\ TotalLen(BeforeLastDeletion) > MaxChars

\* C9, amended: the same, but the last deletion takes a single message when
\* only one is left, and then the list comes back empty.
C9_TrimsToChars ==
    limit_pc = "returned" =>
        /\ Len(messages) <= MaxMessages
        /\ TotalLen(messages) <= MaxChars
        /\ (Len(history) <= MaxMessages /\ TotalLen(history) > MaxChars) =>
              /\ KeptMostRecent
              /\ Removed > 0
              /\ Removed % 2 = 0 \/ messages = <<>>
              /\ TotalLen(BeforeLastDeletion) > MaxChars

\* five messages, three of them long, lost their oldest pair and nothing more
C9_Witness ==
    /\ limit_pc = "returned"
    /\ Len(history) = 5
    /\ \A k \in 1..3 : history[k].size = Large
    /\ TotalLen(history) > MaxChars
    /\ Len(messages) = 3
    /\ messages[1].at = 3

\* ms is what is left of whole after removing some of its oldest messages
IsSuffix(ms, whole) ==
    \E k \in 0..Len(whole) : ms = SubSeq(whole, k + 1, Len(whole))

\* C21: called with a non-empty list, chat_limit_messages returns, whatever
\* the number and the sizes of the messages; at every point of the run, and
\* so at the return, the list is a possibly empty suffix of the list that
\* was passed in, its messages unaltered and in their order; only the empty
\* list makes the function raise.
C21_TerminatesWithSuffix ==
    /\ [](limit_pc \in {"count", "chars", "returned"} =>
            /\ history # <<>>
            /\ IsSuffix(messages, history))
    /\ [](limit_pc = "raised" => history = <<>>)
    /\ (limit_pc \in {"count", "chars"}) ~> (limit_pc = "returned")

\* a single message longer than 8000 characters came back as the empty list
C21_Witness ==
    /\ limit_pc = "returned"
    /\ Len(history) = 1
    /\ MessageLen(history[1]) > MaxChars
    /\ messages = <<>>

(***************************************************************************)
(* Properties of admission.                                                *)
(***************************************************************************)
InSomeQueue(r) ==
    \E m \in Available : \E k \in 1..Len(model_queues[m]) : model_queues[m][k] = r

\* the request's model does not resolve, or it is a chat without messages
FailsValidation(r) ==
    \/ static_resolve_model(posts[r].model).err_msg # ""
    \/ posts[r].endpoint = "chat" /\ posts[r].messages = <<>>

\* C5: a request that fails validation is answered with HTTP 400 and is never
\* admitted: at no time is its ticket in the registry or on a model queue.
C5_InvalidNeverAdmitted ==
    \A r \in Requests : FailsValidation(r) =>
        /\ r \notin id2ticket
        /\ ~InSomeQueue(r)
        /\ handler_pc[r] \in {"new", "json", "responded"}
        /\ handler_pc[r] = "responded" => responses[r] = Http400

\* one request was refused for its model and one for its empty message list,
\* both with the registry and the queues as they were
C5_Witness ==
    /\ posts[1].endpoint = "completions" /\ posts[1].model = "nope"
    /\ posts[2].endpoint = "chat" /\ posts[2].model = "m1" /\ posts[2].messages = <<>>
    /\ \A r \in {1, 2} : handler_pc[r] = "responded" /\ responses[r] = Http400
    /\ id2ticket = {}
    /\ \A m \in Available : model_queues[m] = <<>>

\* the posted list is not empty and limiting leaves nothing of it
ReducedToZero(r) ==
    /\ posts[r].endpoint = "chat"
    /\ static_resolve_model(posts[r].model).err_msg = ""
    /\ posts[r].messages # <<>>
    /\ chat_limit_messages(posts[r].messages) = <<>>

NotAdmitted(r) == r \notin id2ticket /\ ~InSomeQueue(r)

\* C10, as stated: the request is not admitted, no HTTP error is raised, and
\* the response streams one error-shaped chunk with the too-large explanation
\* and then the [DONE] sentinel that ends the streams.
C10_TooLargeEndsWithDone ==
    \A r \in Requests : ReducedToZero(r) =>
        /\ NotAdmitted(r)
        /\ handler_pc[r] = "responded" =>
              /\ responses[r].code = 200
              /\ responses[r].frames = << ErrorChunk(TooLargeMessage), [type |-> "done"] >>

\* C10, amended: the same, but the chunk is followed by the frame
\* "data: [ERROR]", not by "data: [DONE]".
C10_TooLargeEndsWithError ==
    \A r \in Requests : ReducedToZero(r) =>
        /\ NotAdmitted(r)
        /\ handler_pc[r] \in {"new", "json", "responded"}
        /\ handler_pc[r] = "responded" =>
              /\ responses[r].code = 200
              /\ responses[r].kind = "static"
              /\ responses[r].frames =
                     << ErrorChunk(TooLargeMessage), [type |-> "error_sentinel"] >>

\* a chat of one message of more than 8000 characters got the static stream
C10_Witness ==
    /\ posts[1].endpoint = "chat" /\ posts[1].model = "m2"
    /\ Len(posts[1].messages) = 1 /\ posts[1].messages[1].size = Huge
    /\ handler_pc[1] = "responded"
    /\ Len(responses[1].frames) = 2
    /\ responses[1].frames[1].delta = TooLargeMessage
    /\ 1 \notin id2ticket

\* how many times the ticket of request r is on the queue of model m
TimesQueued(r, m) ==
    Cardinality({k \in 1..Len(model_queues[m]) : model_queues[m][k] = r})

\* C14: on both admission paths a ticket that is on a model queue is in the
\* registry, under every interleaving of the requests: it is registered
\* first and put on the queue at the next step; a ticket is on no queue but
\* the one of its resolved model, there at most once, and exactly once when
\* the handler has returned the ticket's stream.
C14_RegisteredBeforeQueued ==
    \A r \in Requests :
        /\ InSomeQueue(r) => r \in id2ticket
        /\ handler_pc[r] = "put" => (r \in id2ticket /\ ~InSomeQueue(r))
        /\ \A m \in Available :
              /\ TimesQueued(r, m) <= 1
              /\ TimesQueued(r, m) = 1 =>
                    m = static_resolve_model(posts[r].model).model_name
        /\ responses[r] = StreamingOfTicket =>
              TimesQueued(r, static_resolve_model(posts[r].model).model_name) = 1

\* a completion ticket is on the queue of m1 and registered, while a chat
\* ticket for m2 is registered and not yet on its queue
C14_Witness ==
    /\ posts[1].endpoint = "completions" /\ posts[1].model = "m1"
    /\ posts[2].endpoint = "chat" /\ posts[2].model = "m2"
    /\ model_queues["m1"] = <<1>>
    /\ model_queues["m2"] = <<>>
    /\ handler_pc[2] = "put"
    /\ id2ticket = {1, 2}

(***************************************************************************)
(* Properties of the /v1/chat/completions proxy.                           *)
(***************************************************************************)
\* C6: on both paths the response ends with "data: [DONE]" or with an error
\* object as its last frame, whatever the source sends and however it fails:
\* never on an ordinary data frame, and never by an unhandled fault.
C6_ProxyEndsWithDoneOrError ==
    proxy_pc \in {"ended", "crashed"} =>
        /\ proxy_pc = "ended"
        /\ proxy_frames # <<>>
        /\ proxy_frames[Len(proxy_frames)].type \in {"done", "error"}

RECURSIVE DeclaredBefore(_)
\* the finish_reason of the latest JSON chunk before the k-th chunk, "null"
\* when there is none
DeclaredBefore(k) ==
    IF k <= 1 THEN "null"
    ELSE IF chunks_in[k - 1].kind = "json" THEN chunks_in[k - 1].finish_reason
    ELSE DeclaredBefore(k - 1)

\* the k-th chunk of the source has been re-emitted as the k-th frame
ReEmitted(k) == k <= Len(proxy_frames) /\ proxy_frames[k].type = "data"

\* C19, as stated: on the local path the frame re-emitted for a source frame
\* that declares a finish_reason carries the declared value, and the frame
\* re-emitted for any other source frame carries null.
C19_ReasonOnDeclaringFrame ==
    proxy_path = "local" =>
        \A k \in 1..Len(chunks_in) : ReEmitted(k) =>
            proxy_frames[k].finish_reason =
                (IF chunks_in[k].kind = "json" THEN chunks_in[k].finish_reason ELSE "null")

\* C19, amended: on the local path the frame re-emitted for a JSON source
\* frame carries finish_reason null, also when the source frame declares one;
\* the frame emitted for a source frame that is not JSON carries the
\* finish_reason of the latest JSON frame before it.
C19_ReasonOnLaterFrame ==
    proxy_path = "local" =>
        \A k \in 1..Len(chunks_in) : ReEmitted(k) =>
            proxy_frames[k].finish_reason =
                (IF chunks_in[k].kind = "json" THEN "null" ELSE DeclaredBefore(k))

\* the source declared "stop" and then sent its own end marker: the first
\* frame went out with null and the second one with "stop"
C19_Witness ==
    /\ proxy_path = "local"
    /\ Len(chunks_in) = 2
    /\ chunks_in[1] = [kind |-> "json", finish_reason |-> "stop"]
    /\ chunks_in[2].kind = "not_json"
    /\ Len(proxy_frames) = 2
    /\ proxy_frames[1] = ProxyData("source", "null")
    /\ proxy_frames[2] = ProxyData("gateway", "stop")

(***************************************************************************)
(* Properties of two tickets streamed at once.                             *)
(***************************************************************************)
RECURSIVE AloneSeen(_, _)
\* seen of the streamer of ticket t after the first k messages it handled,
\* had it run with no other ticket
AloneSeen(t, k) ==
    IF k = 0 THEN << <<>> >>
    ELSE PairSeenAfter(pair_kind[t], pair_taken[t][k], AloneSeen(t, k - 1))

\* the frame for its k-th message, had it run with no other ticket
AloneFrame(t, k) == PairFrame(pair_kind[t], pair_taken[t][k], AloneSeen(t, k - 1))

\* the messages the streamer of ticket t took from the queue
PairTakenFromQueue(t) == SelectSeq(pair_taken[t], LAMBDA m : ~m.synth)

\* C20: with two tickets streamed at once, under every interleaving, the
\* messages a streamer handles are the first ones put on its own ticket's
\* queue (and a timeout error of its own), and its frames and its seen are
\* those it would have after the same messages with no other ticket running.
C20_NoInterference ==
    \A t \in Tickets :
        /\ Len(PairTakenFromQueue(t)) <= Len(pair_put[t])
        /\ PairTakenFromQueue(t) = SubSeq(pair_put[t], 1, Len(PairTakenFromQueue(t)))
        /\ Len(pair_frames[t]) >= Len(pair_taken[t])
        /\ \A k \in 1..Len(pair_frames[t]) :
              pair_frames[t][k] =
                  (IF k <= Len(pair_taken[t]) THEN AloneFrame(t, k) ELSE DoneFrame)
        /\ pair_seen[t] = AloneSeen(t, Len(pair_taken[t]))

\* a completion ticket and a chat ticket have both streamed "a" and then
\* "ab" as "a" and "b", each followed by its sentinel
C20_Witness ==
    /\ pair_kind["t1"] = "completion" /\ pair_kind["t2"] = "chat"
    /\ \A t \in Tickets :
          /\ pair_pc[t] = "finished"
          /\ Len(pair_frames[t]) = 3
          /\ Len(pair_put[t]) = 2
          /\ pair_put[t][1].texts = << <<"a">> >>
          /\ pair_put[t][2].texts = << <<"a", "b">> >>
          /\ pair_frames[t][1].texts = << <<"a">> >>
          /\ pair_frames[t][2].texts = << <<"b">> >>
          /\ pair_frames[t][3] = DoneFrame

====
